---- MODULE Spec2Model ----
(***************************************************************************)
(* Scheduler, observer registry, checkpoint and run loop of the atooms     *)
(* simulation core.                                                        *)
(*                                                                         *)
(* Simulation is the class of src/atooms/simulation/core.py.  Its          *)
(* Scheduler comes from atooms/simulation/observers.py, which is not part  *)
(* of the sources at hand; the Scheduler modelled here is the one of       *)
(* src/atooms/simulation/__init__.py (attribute _period is written         *)
(* "interval", as core.py and the specification call it).  The sources are *)
(* Python 2 (sys.maxint, exception.message): "/" between two ints is the   *)
(* floor division, written \div.  None, 0 and the empty value are all      *)
(* "false" for the tests "if not self._period", "if self.target" and       *)
(* "if self.calls": an unset attribute is written 0.                       *)
(***************************************************************************)
EXTENDS Integers, Sequences, FiniteSets, TLC

\* ------------------------------------------------------------------ bounds
MaxInterval == 2
MaxSteps == 3
MaxThis == 6
MaxCalls == 3
MaxTarget == 4
MaxRuns == 2

\* ---------------------------------------------------------------- helpers
Max(a, b) == IF a >= b THEN a ELSE b

MaxOfSet(S) == CHOOSE x \in S : \A y \in S : y <= x

RECURSIVE MinOf(_)
\* min(all_steps + [next_checkpoint])
MinOf(S) ==
    LET x == CHOOSE y \in S : TRUE
    IN  IF S = {x} THEN x
        ELSE LET m == MinOf(S \ {x}) IN IF x <= m THEN x ELSE m

Range(q) == {q[i] : i \in 1..Len(q)}

RECURSIVE SelectSeq2(_, _)
\* [o for o in q if o in S]
SelectSeq2(q, S) ==
    IF q = <<>> THEN <<>>
    ELSE IF Head(q) \in S THEN <<Head(q)>> \o SelectSeq2(Tail(q), S)
         ELSE SelectSeq2(Tail(q), S)

\* list.remove(x): removes the first occurrence
RECURSIVE ListRemove(_, _)
ListRemove(q, x) ==
    IF q = <<>> THEN <<>>
    ELSE IF Head(q) = x THEN Tail(q)
         ELSE <<Head(q)>> \o ListRemove(Tail(q), x)

\* -------------------------------------------------------------- Scheduler
\* Scheduler.__init__(period, calls, target)
Scheduler(interval, calls, target) ==
    [interval |-> interval, calls |-> calls, target |-> target]

\* The property raises SchedulerError exactly when this is false.
Resolvable(s) == s.interval # 0 \/ s.target # 0

periodIgnoreCalls(s) ==
    IF s.interval # 0 THEN s.interval ELSE s.target

\* Scheduler.period: the value it returns (and stores in _period)
period(s) ==
    IF s.interval # 0 THEN s.interval
    ELSE IF s.calls # 0 THEN Max(1, s.target \div s.calls)
         ELSE s.target

\* The Scheduler object after its period was read: the value is cached.
ResolvedNoCache(s) == s

Resolved(s) == [s EXCEPT !.interval = period(s)]

nextSameStep(s, this) ==
    ((this + period(s) - 1) \div period(s)) * period(s)

nextPlusInterval(s, this) == this + period(s)

\* Scheduler.next
next(s, this) == (this \div period(s) + 1) * period(s)

\* Scheduler.now
now(s, this) == this % period(s) = 0

\* ------------------------------------------------------------------ state
VARIABLES
    sch, this, result,      \* a Scheduler object, the step it was last asked about, the answer
    op,                     \* the last operation called on the registry or the scheduler
    callback,               \* Simulation._callback: the ordered list of observers
    cbk_params,             \* Simulation._cbk_params: observer -> scheduler and arguments
    checkpoint_scheduler,   \* Simulation._checkpoint_scheduler
    steps, current_step, initial_step, restart,
    output_path,            \* TRUE when output_path is not None
    chk_step,               \* content of <output_path>.chk.step, -1 when there is no file
    pc,                     \* position of the control in run()
    pending,                \* observers _notify still has to call, in order
    next_checkpoint,        \* the local variable of the loop
    log,                    \* what happened so far: notifications, checkpoints, advances
    outcome,                \* how the last call of run() ended
    reg_order,              \* registered observers, by the time of their last add()
    runs                    \* calls of run() on this instance so far

vars == <<sch, this, result, op, callback, cbk_params, checkpoint_scheduler,
          steps, current_step, initial_step, restart, output_path, chk_step,
          pc, pending, next_checkpoint, log, outcome, reg_order, runs>>

schedVars == <<sch, this, result>>
simVars == <<callback, cbk_params, checkpoint_scheduler, steps, current_step,
             initial_step, restart, output_path, chk_step, pc, pending,
             next_checkpoint, log, outcome, reg_order, runs>>

\* ----------------------------------------------------------------- inputs
\* Observers are told apart by identity; __name__ decides the class.
Writers == {"write_a", "write_b"}
Targeters == {"target_steps", "target_b", "target_walltime"}
\* The check for the STOP file of the user: no 'target' in its name
Stoppers == {"user_stop"}
Callbacks == Writers \cup Targeters \cup Stoppers

\* 'target' in callback.__name__.lower()
IsTargeter(c) == c \in Targeters

\* Observers that define clear()
HasClear == {"write_a", "target_b"}

\* The values of the documented examples are part of the inputs.
SchedIntervals == (0..MaxInterval) \cup {100}
SchedCalls == (0..MaxCalls) \cup {10}
SchedTargets == (0..MaxTarget) \cup {1000}
SchedThis == (0..MaxThis) \cup {150, 200}

NoResult == [kind |-> "none", val |-> 0, derived |-> FALSE]
NoOp == [name |-> "none", cb |-> "", found |-> FALSE,
         scheduler |-> [interval |-> 0, calls |-> 0, target |-> 0], args |-> <<>>]

Ev(e, c, s, n) == [ev |-> e, cb |-> c, step |-> s, n |-> n]

\* ---------------------------------------------------- Scheduler, in use
\* s.next(t): the period is resolved (and cached) or SchedulerError is raised.
CallNext(t) ==
    /\ this' = t
    /\ op' = [NoOp EXCEPT !.name = "next"]
    /\ IF Resolvable(sch)
       THEN /\ result' = [kind |-> "value", val |-> next(sch, t),
                          derived |-> sch.interval = 0]
            /\ sch' = Resolved(sch)
       ELSE /\ result' = [kind |-> "SchedulerError", val |-> 0, derived |-> FALSE]
            /\ sch' = sch
    /\ UNCHANGED simVars

\* s.now(t)
CallNow(t) ==
    /\ this' = t
    /\ op' = [NoOp EXCEPT !.name = "now"]
    /\ IF Resolvable(sch)
       THEN /\ result' = [kind |-> "bool", val |-> IF now(sch, t) THEN 1 ELSE 0,
                          derived |-> sch.interval = 0]
            /\ sch' = Resolved(sch)
       ELSE /\ result' = [kind |-> "SchedulerError", val |-> 0, derived |-> FALSE]
            /\ sch' = sch
    /\ UNCHANGED simVars

\* s.target = v, as run_pre() does for every scheduler
SetTarget(v) ==
    /\ sch' = [sch EXCEPT !.target = v]
    /\ op' = [NoOp EXCEPT !.name = "target"]
    /\ result' = NoResult
    /\ UNCHANGED <<this>>
    /\ UNCHANGED simVars

\* ---------------------------------------------------- Observer registry
addAppendAlways(cbs, c) ==
    Append(IF c \in Range(cbs) THEN ListRemove(cbs, c) ELSE cbs, c)

\* Simulation.add: the new _callback
addCallback(cbs, c) ==
    LET r == IF c \in Range(cbs) THEN ListRemove(cbs, c) ELSE cbs
    IN  IF ~IsTargeter(c) THEN <<c>> \o r ELSE Append(r, c)

addParamsKeepOld(params, c, s, a) ==
    [x \in DOMAIN params \cup {c} |->
        IF x \in DOMAIN params THEN params[x] ELSE [scheduler |-> s, args |-> a]]

\* Simulation.add: the new _cbk_params (args stands for args and kwargs)
addParams(params, c, s, a) ==
    [x \in DOMAIN params \cup {c} |->
        IF x = c THEN [scheduler |-> s, args |-> a] ELSE params[x]]

\* The observers by the time of their last registration
Registered(order, c) == Append(SelectSeq2(order, Range(order) \ {c}), c)

\* sim.add(c, s, *a), between two calls of run()
Add(c, s, a) ==
    /\ pc = "idle"
    /\ callback' = addCallback(callback, c)
    /\ cbk_params' = addParams(cbk_params, c, s, a)
    /\ reg_order' = Registered(reg_order, c)
    /\ op' = [name |-> "add", cb |-> c, found |-> c \in Range(callback),
              scheduler |-> s, args |-> a]
    /\ UNCHANGED <<checkpoint_scheduler, steps, current_step, initial_step, restart,
                   output_path, chk_step, pc, pending, next_checkpoint, log,
                   outcome, runs>>
    /\ UNCHANGED schedVars

removeParamsKeepAll(params, c) == params

\* Simulation.remove: the new _cbk_params
removeParams(params, c) == [x \in DOMAIN params \ {c} |-> params[x]]

\* sim.remove(c), between two calls of run()
Remove(c) ==
    /\ pc = "idle"
    /\ IF c \in Range(callback)
       THEN /\ callback' = ListRemove(callback, c)
            /\ cbk_params' = removeParams(cbk_params, c)
            /\ reg_order' = SelectSeq2(reg_order, Range(reg_order) \ {c})
       ELSE UNCHANGED <<callback, cbk_params, reg_order>>
    /\ op' = [NoOp EXCEPT !.name = "remove", !.cb = c,
                          !.found = c \in Range(callback)]
    /\ UNCHANGED <<checkpoint_scheduler, steps, current_step, initial_step, restart,
                   output_path, chk_step, pc, pending, next_checkpoint, log,
                   outcome, runs>>
    /\ UNCHANGED schedVars

\* ------------------------------------------------------------ Observers
targetersNone(cbs) == <<>>

\* [o for o in self._callback if 'target' in o.__name__.lower()]
targeters(cbs) == SelectSeq2(cbs, Targeters)

\* [o for o in self._callback if 'target' not in o.__name__.lower()]
non_targeters(cbs) == SelectSeq2(cbs, Callbacks \ Targeters)

TargetStepsRaisesOnEqual(step, args) == step = args[1]

\* target_steps(sim, value) raises SimulationEnd when the step count has
\* reached value, as Target.__call__ does with x >= self.target.
TargetStepsRaises(step, args) == step >= args[1]

\* What calling observer c can do: TRUE = it raises SimulationEnd.
\* The outcome of target_b depends on the backend's state, that of
\* user_stop on the STOP file being there (UserStop.__call__).
Raises(c, step, args) ==
    IF c = "target_steps" THEN {TargetStepsRaises(step, args)}
    ELSE IF c \in {"target_b"} \cup Stoppers THEN BOOLEAN
    ELSE {FALSE}

\* The exceptions other than SimulationEnd that calling observer c can
\* raise: TargetWallTime raises WallTimeLimit, which is no SimulationEnd;
\* any observer can fail.
Fails(c) ==
    IF c = "target_walltime" THEN {"WallTimeLimit", "Exception"}
    ELSE {"Exception"}

\* ------------------------------------------------------------ Checkpoint
\* Simulation.write_checkpoint: the new content of the step file
write_checkpoint(path, old, step) == IF path THEN step ELSE old

\* '%d' % n (write_checkpoint, line 182): the characters of the step file
DigitChars == <<"0", "1", "2", "3", "4", "5", "6", "7", "8", "9">>

RECURSIVE FormatDigits(_)
FormatDigits(n) ==
    IF n < 10 THEN <<DigitChars[n + 1]>>
    ELSE Append(FormatDigits(n \div 10), DigitChars[(n % 10) + 1])

FormatStep(n) == IF n < 0 THEN <<"-">> \o FormatDigits(-n) ELSE FormatDigits(n)

\* int(fh.read()) (read_checkpoint, line 192)
RECURSIVE ParseDigits(_)
ParseDigits(q) ==
    IF q = <<>> THEN 0
    ELSE LET d == CHOOSE k \in 0..9 : DigitChars[k + 1] = q[Len(q)]
         IN  10 * ParseDigits(SubSeq(q, 1, Len(q) - 1)) + d

ParseStep(q) == IF q[1] = "-" THEN -ParseDigits(Tail(q)) ELSE ParseDigits(q)

read_checkpointKeepStep(path, file, step) == step

\* Simulation.read_checkpoint: the new current_step; file is the number
\* that write_checkpoint formatted into the step file
read_checkpoint(path, file, step) ==
    IF path THEN ParseStep(FormatStep(file)) ELSE step

\* ------------------------------------------------------------ run()
\* _info_observers: reads s.interval of every observer that is no targeter,
\* in the order of the list; the first that cannot be resolved raises.
RECURSIVE InfoObservers(_, _)
InfoObservers(q, params) ==
    IF q = <<>> THEN [ok |-> TRUE, params |-> params]
    ELSE LET c == Head(q) IN
         IF IsTargeter(c) THEN InfoObservers(Tail(q), params)
         ELSE IF ~Resolvable(params[c].scheduler)
              THEN [ok |-> FALSE, params |-> params]
              ELSE InfoObservers(Tail(q),
                     [params EXCEPT ![c].scheduler = Resolved(@)])

\* [self._cbk_params[c]['scheduler'](self) for c in self._callback]
RECURSIVE AllSteps(_, _, _)
AllSteps(q, params, step) ==
    IF q = <<>> THEN [ok |-> TRUE, params |-> params, steps |-> <<>>]
    ELSE LET c == Head(q) IN
         IF ~Resolvable(params[c].scheduler)
         THEN [ok |-> FALSE, params |-> params, steps |-> <<>>]
         ELSE LET r == AllSteps(Tail(q),
                         [params EXCEPT ![c].scheduler = Resolved(@)], step)
              IN  [r EXCEPT !.steps = <<next(params[c].scheduler, step)>> \o @]

\* [self._callback[i] for i in next_step_ids]
NextObserversTargetersFirst(cbs, all_steps, next_step) ==
    LET due == {cbs[i] : i \in {j \in 1..Len(cbs) : all_steps[j] = next_step}}
    IN  SelectSeq2(cbs, due \cap Targeters) \o SelectSeq2(cbs, due \ Targeters)

NextObserversTargetersOnly(cbs, all_steps, next_step) ==
    LET due == {cbs[i] : i \in {j \in 1..Len(cbs) : all_steps[j] = next_step}}
    IN  SelectSeq2(cbs, due \cap Targeters)

NextObservers(cbs, all_steps, next_step) ==
    SelectSeq2(cbs, {cbs[i] : i \in {j \in 1..Len(cbs) : all_steps[j] = next_step}})

ClearEventsNone(q) == <<>>

\* The events of the cleanup in run_prepare()
RECURSIVE ClearEvents(_)
ClearEvents(q) ==
    IF q = <<>> THEN <<>>
    ELSE IF Head(q) \in HasClear
         THEN <<Ev("clear", Head(q), 0, 0)>> \o ClearEvents(Tail(q))
         ELSE ClearEvents(Tail(q))

\* run(), lines 275-277: the run length (arg = -1 stands for steps=None)
RunSteps(arg, old, rst, step) ==
    IF arg # -1 /\ (~rst \/ step = 0) THEN arg ELSE old

TargetForSteps(step, st) == st

\* run(), line 281: the argument of the targeter for steps
TargetFor(step, st) == step + st

\* run(), lines 275-293: up to the try. An exception raised here leaves
\* run() at once: neither except nor finally have been entered.
RunCall(arg) ==
    /\ pc = "idle"
    /\ LET st == RunSteps(arg, steps, restart, current_step)
           cbs == addCallback(callback, "target_steps")
           prm == addParams(cbk_params, "target_steps", Scheduler(st, 0, 0),
                            <<TargetFor(current_step, st)>>)
           clear == IF output_path /\ ~restart THEN ClearEvents(cbs) ELSE <<>>
           reads == output_path /\ restart
           noFile == reads /\ chk_step = -1
           cs == IF reads /\ ~noFile
                 THEN read_checkpoint(output_path, chk_step, current_step)
                 ELSE current_step
           info == InfoObservers(cbs, prm)
           start == Ev("run", "", current_step, 0)
       IN  /\ steps' = st
           /\ callback' = cbs
           /\ reg_order' = Registered(reg_order, "target_steps")
           /\ runs' = runs + 1
           /\ IF noFile
              THEN \* read_checkpoint: open() raises IOError
                   /\ cbk_params' = prm
                   /\ log' = log \o <<start>> \o clear \o <<Ev("raise", "IOError", current_step, 0)>>
                   /\ outcome' = "raised"
                   /\ pc' = "idle"
                   /\ pending' = <<>>
                   /\ UNCHANGED <<current_step, initial_step>>
              ELSE /\ current_step' = cs
                   /\ initial_step' = cs
                   /\ cbk_params' = info.params
                   /\ IF info.ok
                      THEN /\ log' = log \o <<start>> \o clear
                                     \o (IF reads THEN <<Ev("read", "", cs, 0)>> ELSE <<>>)
                                     \o <<Ev("prepared", "", cs, 0)>>
                           /\ outcome' = "running"
                           /\ pc' = "targeters"
                           /\ pending' = targeters(cbs)
                      ELSE /\ log' = log \o <<start>> \o clear
                                     \o (IF reads THEN <<Ev("read", "", cs, 0)>> ELSE <<>>)
                                     \o <<Ev("raise", "SchedulerError", cs, 0)>>
                           /\ outcome' = "raised"
                           /\ pc' = "idle"
                           /\ pending' = <<>>
    /\ op' = [NoOp EXCEPT !.name = "run"]
    /\ UNCHANGED <<checkpoint_scheduler, restart, output_path, chk_step, next_checkpoint>>
    /\ UNCHANGED schedVars

\* _notify: one observer is called. SimulationEnd leads to the handler.
Notify ==
    /\ pc \in {"targeters", "non_targeters", "notify"}
    /\ pending # <<>>
    /\ LET c == Head(pending) IN
       \E raises \in Raises(c, current_step, cbk_params[c].args) :
          /\ log' = Append(log, Ev(IF pc = "notify" THEN "notify" ELSE "notify0",
                                   c, current_step, IF raises THEN 1 ELSE 0))
          /\ IF raises
             THEN pc' = "ending" /\ pending' = <<>>
             ELSE pc' = pc /\ pending' = Tail(pending)
    /\ UNCHANGED <<op, callback, cbk_params, checkpoint_scheduler, steps, current_step,
                   initial_step, restart, output_path, chk_step, next_checkpoint,
                   outcome, reg_order, runs>>
    /\ UNCHANGED schedVars

NonTargetersAlways(step, rst) == TRUE

\* run(), line 299: whether the initial pass notifies the non targeters
NotifiesNonTargeters(step, rst) == step = 0

\* run(), lines 298-302, after the targeters were notified
InitialNonTargeters ==
    /\ pc = "targeters"
    /\ pending = <<>>
    /\ IF NotifiesNonTargeters(current_step, restart)
       THEN pending' = non_targeters(callback)
       ELSE pending' = <<>>  \* self._speedometers: none is registered
    /\ pc' = "non_targeters"
    /\ UNCHANGED <<op, callback, cbk_params, checkpoint_scheduler, steps, current_step,
                   initial_step, restart, output_path, chk_step, next_checkpoint,
                   log, outcome, reg_order, runs>>
    /\ UNCHANGED schedVars

\* run(), lines 303-305: the loop is entered
EnterLoop ==
    /\ pc = "non_targeters"
    /\ pending = <<>>
    /\ pc' = "loop"
    /\ log' = Append(log, Ev("starting", "", current_step, 0))
    /\ UNCHANGED <<op, callback, cbk_params, checkpoint_scheduler, steps, current_step,
                   initial_step, restart, output_path, chk_step, pending,
                   next_checkpoint, outcome, reg_order, runs>>
    /\ UNCHANGED schedVars

AdvanceByNextStep(nstep, step) == nstep

\* run_until, line 268: the number of steps the backend is asked to advance
AdvanceBy(nstep, step) == nstep - step

run_untilStepFirst(nstep, step, fails) == nstep

\* run_until, lines 268-269: current_step after the call; it is assigned
\* after backend.run() has returned, not when backend.run() raises
run_until(nstep, step, fails) == IF fails THEN step ELSE nstep

\* run(), lines 307-315: the schedulers are asked, the backend advances
\* (fails = the backend raises), the due observers are selected.
\* A SchedulerError or a failure of the backend is caught by the bare
\* except: 'simulation failed', the exception is raised again, 'goodbye'.
Iterate(fails) ==
    /\ pc = "loop"
    /\ LET all == AllSteps(callback, cbk_params, current_step)
           chkOk == all.ok /\ Resolvable(checkpoint_scheduler)
           nchk == next(checkpoint_scheduler, current_step)
           nstep == MinOf(Range(all.steps) \cup {nchk})
       IN  /\ cbk_params' = all.params
           /\ IF ~chkOk
              THEN /\ ~fails
                   /\ log' = log \o <<Ev("raise", "SchedulerError", current_step, 0),
                                      Ev("failed", "", current_step, 0),
                                      Ev("goodbye", "", current_step, 0)>>
                   /\ outcome' = "failed"
                   /\ pc' = "idle"
                   /\ UNCHANGED <<checkpoint_scheduler, current_step, pending, next_checkpoint>>
              ELSE /\ checkpoint_scheduler' = Resolved(checkpoint_scheduler)
                   /\ IF fails
                      THEN /\ log' = log \o <<Ev("raise", "backend", current_step, 0),
                                              Ev("failed", "", current_step, 0),
                                              Ev("goodbye", "", current_step, 0)>>
                           /\ outcome' = "failed"
                           /\ pc' = "idle"
                           /\ current_step' = run_until(nstep, current_step, TRUE)
                           /\ UNCHANGED <<pending, next_checkpoint>>
                      ELSE /\ log' = Append(log, Ev("advance", "", nstep,
                                                   AdvanceBy(nstep, current_step)))
                           /\ current_step' = run_until(nstep, current_step, FALSE)
                           /\ next_checkpoint' = nchk
                           /\ pending' = NextObservers(callback, all.steps, nstep)
                           /\ pc' = "notify"
                           /\ UNCHANGED outcome
    /\ UNCHANGED <<op, callback, steps, initial_step, restart, output_path, chk_step,
                   reg_order, runs>>
    /\ UNCHANGED schedVars

CheckpointNever(step, nchk) == FALSE

\* run(), line 320
CheckpointDue(step, nchk) == step = nchk

\* run(), lines 320-321, after the observers were notified
Checkpoint ==
    /\ pc = "notify"
    /\ pending = <<>>
    /\ IF CheckpointDue(current_step, next_checkpoint)
       THEN /\ chk_step' = write_checkpoint(output_path, chk_step, current_step)
            /\ log' = Append(log, Ev("checkpoint", "", current_step, 0))
       ELSE UNCHANGED <<chk_step, log>>
    /\ pc' = "loop"
    /\ UNCHANGED <<op, callback, cbk_params, checkpoint_scheduler, steps, current_step,
                   initial_step, restart, output_path, pending, next_checkpoint,
                   outcome, reg_order, runs>>
    /\ UNCHANGED schedVars

EndNoCheckpoint(path, old, step) == old

\* run(), line 325: the step file after the handler of SimulationEnd
EndCheckpoint(path, old, step) == write_checkpoint(path, old, step)

\* run(), lines 323-327 and 336-337: the handler of SimulationEnd
End ==
    /\ pc = "ending"
    /\ chk_step' = EndCheckpoint(output_path, chk_step, current_step)
    /\ log' = log \o <<Ev("checkpoint", "", current_step, 1),
                       Ev("report", "", current_step, 0),
                       Ev("goodbye", "", current_step, 0)>>
    /\ outcome' = "ended"
    /\ pc' = "idle"
    /\ UNCHANGED <<op, callback, cbk_params, checkpoint_scheduler, steps, current_step,
                   initial_step, restart, output_path, pending, next_checkpoint,
                   reg_order, runs>>
    /\ UNCHANGED schedVars

HandlerInterruptAsFailure(exc) ==
    IF exc = "SimulationEnd"
    THEN [checkpoint |-> TRUE, report |-> TRUE, failed |-> FALSE, reraise |-> FALSE]
    ELSE [checkpoint |-> FALSE, report |-> FALSE, failed |-> TRUE, reraise |-> TRUE]

\* run(), lines 323-334: the except clause that takes exception exc raised
\* in the try block: what it does before the finally clause
Handler(exc) ==
    IF exc = "SimulationEnd"
    THEN [checkpoint |-> TRUE, report |-> TRUE, failed |-> FALSE, reraise |-> FALSE]
    ELSE IF exc = "KeyboardInterrupt"
    THEN [checkpoint |-> FALSE, report |-> FALSE, failed |-> FALSE, reraise |-> FALSE]
    ELSE [checkpoint |-> FALSE, report |-> FALSE, failed |-> TRUE, reraise |-> TRUE]

\* run(), lines 323-337: what is logged from the except clause on
HandlerEvents(exc, step) ==
    LET h == Handler(exc) IN
    (IF h.checkpoint THEN <<Ev("checkpoint", "", step, 1)>> ELSE <<>>)
    \o (IF h.report THEN <<Ev("report", "", step, 0)>> ELSE <<>>)
    \o (IF h.failed THEN <<Ev("failed", "", step, 0)>> ELSE <<>>)
    \o <<Ev("goodbye", "", step, 0)>>

\* how run() is left: "failed" = the exception reaches the caller
HandlerOutcome(exc) ==
    IF Handler(exc).reraise THEN "failed"
    ELSE IF exc = "SimulationEnd" THEN "ended" ELSE "interrupted"

\* run(), lines 329-330 and 336-337: KeyboardInterrupt inside the try
Interrupt ==
    /\ pc \in {"targeters", "non_targeters", "loop", "notify"}
    /\ log' = log \o <<Ev("raise", "KeyboardInterrupt", current_step, 0)>>
                   \o HandlerEvents("KeyboardInterrupt", current_step)
    /\ chk_step' = IF Handler("KeyboardInterrupt").checkpoint
                   THEN write_checkpoint(output_path, chk_step, current_step)
                   ELSE chk_step
    /\ outcome' = HandlerOutcome("KeyboardInterrupt")
    /\ pc' = "idle"
    /\ pending' = <<>>
    /\ UNCHANGED <<op, callback, cbk_params, checkpoint_scheduler, steps, current_step,
                   initial_step, restart, output_path, next_checkpoint,
                   reg_order, runs>>
    /\ UNCHANGED schedVars

\* _notify, line 165: the observer raises something that is no
\* SimulationEnd; the except clause in charge handles it.
NotifyFails ==
    /\ pc \in {"targeters", "non_targeters", "notify"}
    /\ pending # <<>>
    /\ LET c == Head(pending) IN
       \E exc \in Fails(c) :
          /\ log' = log \o <<Ev(IF pc = "notify" THEN "notify" ELSE "notify0",
                                 c, current_step, 2),
                              Ev("raise", exc, current_step, 0)>>
                         \o HandlerEvents(exc, current_step)
          /\ chk_step' = IF Handler(exc).checkpoint
                         THEN write_checkpoint(output_path, chk_step, current_step)
                         ELSE chk_step
          /\ outcome' = HandlerOutcome(exc)
    /\ pc' = "idle"
    /\ pending' = <<>>
    /\ UNCHANGED <<op, callback, cbk_params, checkpoint_scheduler, steps, current_step,
                   initial_step, restart, output_path, next_checkpoint,
                   reg_order, runs>>
    /\ UNCHANGED schedVars

\* run(), lines 320-321: the checkpoint of the loop is due and the hook
\* backend.write_checkpoint() raises (no AttributeError); the step file
\* was written before the hook was called (lines 180-184).
CheckpointFails ==
    /\ pc = "notify"
    /\ pending = <<>>
    /\ CheckpointDue(current_step, next_checkpoint)
    /\ chk_step' = write_checkpoint(output_path, chk_step, current_step)
    /\ log' = log \o <<Ev("raise", "checkpoint", current_step, 0)>>
                   \o HandlerEvents("IOError", current_step)
    /\ outcome' = HandlerOutcome("IOError")
    /\ pc' = "idle"
    /\ UNCHANGED <<op, callback, cbk_params, checkpoint_scheduler, steps, current_step,
                   initial_step, restart, output_path, pending, next_checkpoint,
                   reg_order, runs>>
    /\ UNCHANGED schedVars

\* run(), line 325: the hook raises in the final checkpoint. The exception
\* is raised inside the except clause of SimulationEnd: no other except
\* clause of the statement takes it, the finally clause runs and the
\* exception reaches the caller.
EndFails ==
    /\ pc = "ending"
    /\ chk_step' = write_checkpoint(output_path, chk_step, current_step)
    /\ log' = log \o <<Ev("raise", "checkpoint", current_step, 0),
                       Ev("goodbye", "", current_step, 0)>>
    /\ outcome' = "raised"
    /\ pc' = "idle"
    /\ UNCHANGED <<op, callback, cbk_params, checkpoint_scheduler, steps, current_step,
                   initial_step, restart, output_path, pending, next_checkpoint,
                   reg_order, runs>>
    /\ UNCHANGED schedVars

\* Simulation.__init__ of a new process on the same output path: the
\* program is started again and the step file of the earlier process is there.
Relaunch(rst) ==
    /\ pc = "idle"
    /\ runs > 0
    /\ callback' = <<>>
    /\ cbk_params' = <<>>
    /\ reg_order' = <<>>
    /\ current_step' = 0
    /\ initial_step' = 0
    /\ restart' = rst
    /\ runs' = 0
    /\ outcome' = "none"
    /\ log' = Append(log, Ev("process", "", 0, 0))
    /\ op' = [NoOp EXCEPT !.name = "init"]
    /\ UNCHANGED <<checkpoint_scheduler, steps, output_path, chk_step, pc, pending,
                   next_checkpoint>>
    /\ UNCHANGED schedVars

\* --------------------------------------------------------- specifications
\* A Simulation as __init__ leaves it (speedometer disabled).
SimInit ==
    /\ callback = <<>>
    /\ cbk_params = <<>>
    /\ reg_order = <<>>
    /\ \E ci \in 0..MaxInterval : checkpoint_scheduler = Scheduler(ci, 0, 0)
    /\ steps \in 0..MaxSteps
    /\ current_step = 0
    /\ initial_step = 0
    /\ restart \in BOOLEAN
    /\ output_path \in BOOLEAN
    /\ chk_step = -1
    /\ pc = "idle"
    /\ pending = <<>>
    /\ next_checkpoint = 0
    /\ log = <<>>
    /\ outcome = "none"
    /\ runs = 0
    /\ op = NoOp

SchedFixed ==
    /\ sch = Scheduler(1, 0, 0)
    /\ this = 0
    /\ result = NoResult

Init == SimInit /\ SchedFixed

\* Schedulers and arguments given to add() before a run
SimScheds == {Scheduler(i, 0, 0) : i \in 0..MaxInterval}
SimArgs(c) == IF c \in Writers THEN {<<>>} ELSE {<<1>>}
UserCallbacks == {"write_a", "write_b", "target_b"}
RunArgs == (-1)..MaxSteps

Processes(l) == Len(SelectSeq(l, LAMBDA e : e.ev = "process"))

Next ==
    \/ \E c \in UserCallbacks, s \in SimScheds : \E a \in SimArgs(c) :
          runs = 0 /\ Processes(log) = 0 /\ Add(c, s, a)
    \/ \E c \in UserCallbacks : runs = 0 /\ Processes(log) = 0 /\ Remove(c)
    \/ \E arg \in RunArgs : runs = 0 /\ RunCall(arg)
    \/ Notify
    \/ InitialNonTargeters
    \/ EnterLoop
    \/ \E fails \in BOOLEAN : Iterate(fails)
    \/ Checkpoint
    \/ End
    \/ Interrupt

Spec == Init /\ [][Next]_vars

\* A Scheduler on its own: any Scheduler(interval, calls, target), asked at
\* any step, with its target patched in between.
SimFixed ==
    /\ callback = <<>>
    /\ cbk_params = <<>>
    /\ reg_order = <<>>
    /\ checkpoint_scheduler = Scheduler(0, 0, 0)
    /\ steps = 0
    /\ current_step = 0
    /\ initial_step = 0
    /\ restart = FALSE
    /\ output_path = FALSE
    /\ chk_step = -1
    /\ pc = "idle"
    /\ pending = <<>>
    /\ next_checkpoint = 0
    /\ log = <<>>
    /\ outcome = "none"
    /\ runs = 0
    /\ op = NoOp

SchedInit ==
    /\ \E i \in SchedIntervals, c \in SchedCalls, t \in SchedTargets :
          sch = Scheduler(i, c, t)
    /\ this = 0
    /\ result = NoResult
    /\ SimFixed

SchedNext ==
    \/ \E t \in SchedThis : CallNext(t)
    \/ \E t \in SchedThis : CallNow(t)
    \/ \E v \in SchedTargets : SetTarget(v)

SchedSpec == SchedInit /\ [][SchedNext]_vars

\* ------------------------------------------------------------------------
\* C1: for every resolved interval >= 1 and every step s >= 0, next(s) is
\* strictly greater than s and is a multiple of the interval.
NextIsLaterMultiple ==
    result.kind = "value" =>
        /\ sch.interval >= 1
        /\ result.val > this
        /\ result.val % sch.interval = 0

\* next was asked at a step that is itself a positive multiple of an interval > 1
NextAskedOnMultiple ==
    /\ result.kind = "value"
    /\ ~result.derived
    /\ sch.interval > 1
    /\ this > 0
    /\ this % sch.interval = 0

\* C2: next(s) is the smallest multiple of the interval strictly greater
\* than s: a multiple, at most interval away, and s + interval when s is a
\* multiple itself; with interval 100, next(0) = 100, next(150) = 200 and
\* next(200) = 300.
NextIsSmallestLaterMultiple ==
    result.kind = "value" =>
        /\ result.val % sch.interval = 0
        /\ result.val - this \in 1..sch.interval
        /\ \A m \in (this + 1)..(result.val - 1) : m % sch.interval # 0
        /\ (this % sch.interval = 0 => result.val = this + sch.interval)
        /\ (sch.interval = 100 /\ this = 0 => result.val = 100)
        /\ (sch.interval = 100 /\ this = 150 => result.val = 200)
        /\ (sch.interval = 100 /\ this = 200 => result.val = 300)

\* Scheduler(100).next(150) was asked
NextAskedOffGrid ==
    /\ result.kind = "value"
    /\ ~result.derived
    /\ sch.interval = 100
    /\ this = 150

\* C3: reading the period of a Scheduler without interval and with a
\* target >= 1 stores max(1, target div calls) when calls is given and
\* target when it is not; the stored interval is >= 1; target 1000 gives
\* 100 with calls 10 and 1000 without calls.
DerivedInterval ==
    [][(op'.name \in {"next", "now"} /\ sch.interval = 0 /\ sch.target >= 1) =>
          /\ sch'.interval = (IF sch.calls # 0
                              THEN (IF sch.target \div sch.calls >= 1
                                    THEN sch.target \div sch.calls ELSE 1)
                              ELSE sch.target)
          /\ sch'.interval >= 1
          /\ result'.kind # "SchedulerError"
          /\ (sch.target = 1000 /\ sch.calls = 10 => sch'.interval = 100)
          /\ (sch.target = 1000 /\ sch.calls = 0 => sch'.interval = 1000)]_vars

\* an interval was derived from a target smaller than calls
DerivedWithManyCalls ==
    /\ result.kind = "value"
    /\ result.derived
    /\ sch.calls > sch.target
    /\ sch.target >= 1
    /\ sch.interval = 1

\* The registry on its own: any sequence of add() and remove() on one
\* Simulation, with every observer, two schedules and two argument lists.
RegScheds == {Scheduler(1, 0, 0), Scheduler(0, 2, 0)}
RegArgs == {<<1>>, <<2>>}

RegCallbacks == Writers \cup {"target_steps", "target_b"}

RegNext ==
    \/ \E c \in RegCallbacks, s \in RegScheds, a \in RegArgs : Add(c, s, a)
    \/ \E c \in RegCallbacks : Remove(c)

RegInit == SimFixed /\ SchedFixed

RegSpec == RegInit /\ [][RegNext]_vars

Count(q, x) == Cardinality({i \in 1..Len(q) : q[i] = x})

\* ------------------------------------------------------------------------
\* C7: after any sequence of add and remove, every targeter of the list
\* comes after every observer that is no targeter.
TargetersLast ==
    \A i, j \in 1..Len(callback) :
        (IsTargeter(callback[i]) /\ ~IsTargeter(callback[j])) => j < i

\* a writer was registered after two targeters, and it is not the last entry
WriterAddedAfterTargeters ==
    /\ op.name = "add"
    /\ op.cb \in Writers
    /\ Len(callback) = 4
    /\ reg_order[1] \in Targeters
    /\ reg_order[2] \in Targeters

\* C8: add() of an observer that is registered leaves one entry for it,
\* with the scheduler and the arguments just given, in the part of the list
\* of its class; no observer is ever listed twice.
ReAddReplaces ==
    /\ \A c \in Callbacks : Count(callback, c) <= 1
    /\ (op.name = "add" =>
          /\ Count(callback, op.cb) = 1
          /\ op.cb \in DOMAIN cbk_params
          /\ cbk_params[op.cb] = [scheduler |-> op.scheduler, args |-> op.args]
          /\ \A i, j \in 1..Len(callback) :
                (callback[i] = op.cb /\ i < j /\ IsTargeter(op.cb))
                    => IsTargeter(callback[j])
          /\ \A i, j \in 1..Len(callback) :
                (callback[j] = op.cb /\ i < j /\ ~IsTargeter(op.cb))
                    => ~IsTargeter(callback[i]))

\* an observer that was registered with two others was registered again
ReAdded ==
    /\ op.name = "add"
    /\ op.found
    /\ Len(callback) >= 3

\* The documented scenario: target_steps = 50, checkpoint_interval = 20
ScenarioInit ==
    /\ callback = <<>>
    /\ cbk_params = <<>>
    /\ reg_order = <<>>
    /\ checkpoint_scheduler = Scheduler(20, 0, 0)
    /\ steps = 50
    /\ current_step = 0
    /\ initial_step = 0
    /\ restart = FALSE
    /\ output_path = TRUE
    /\ chk_step = -1
    /\ pc = "idle"
    /\ pending = <<>>
    /\ next_checkpoint = 0
    /\ log = <<>>
    /\ outcome = "none"
    /\ runs = 0
    /\ op = NoOp
    /\ SchedFixed

\* Every bounded configuration and the documented one
GridSpec == (Init \/ ScenarioInit) /\ [][Next]_vars

\* ------------------------------------------------------- reading the log
\* the steps of the checkpoints written, in order
CheckpointSteps(l) ==
    LET c == SelectSeq(l, LAMBDA e : e.ev = "checkpoint")
    IN  [i \in 1..Len(c) |-> c[i].step]

\* how many times an observer raised SimulationEnd
Raised(l) ==
    Len(SelectSeq(l, LAMBDA e : e.ev \in {"notify", "notify0"} /\ e.n = 1))

\* run() returned through the handler of SimulationEnd
Ended == pc = "idle" /\ outcome = "ended"

\* the first run of a Simulation built with restart = False
FreshRun == ~restart /\ runs = 1 /\ Processes(log) = 0

\* the multiples of c below n, then n
GridThenEnd(n, c) == [i \in 1..((n - 1) \div c + 1) |-> IF i * c < n THEN i * c ELSE n]

\* ------------------------------------------------------------------------
\* C4 as stated: a fresh run with step target N >= 1 and no other observer
\* ends with current_step = N, the termination raised once and exactly one
\* checkpoint written, at step N.
OneCheckpointAtTarget ==
    (Ended /\ FreshRun /\ callback = <<"target_steps">> /\ steps >= 1) =>
        /\ current_step = steps
        /\ Raised(log) = 1
        /\ CheckpointSteps(log) = <<steps>>

\* C4 as amended: the same when the checkpoint interval is at least N, so
\* that no checkpoint is due before N; the step file then holds N.
OneCheckpointAtTargetIfNoneDue ==
    (Ended /\ FreshRun /\ callback = <<"target_steps">> /\ steps >= 1
           /\ checkpoint_scheduler.interval >= steps) =>
        /\ current_step = steps
        /\ Raised(log) = 1
        /\ CheckpointSteps(log) = <<steps>>
        /\ (output_path => chk_step = steps)

\* such a run of two steps or more has ended
TargetOnlyRunEnded ==
    /\ Ended /\ FreshRun /\ callback = <<"target_steps">>
    /\ steps >= 2
    /\ checkpoint_scheduler.interval >= steps
    /\ output_path

\* C5: a fresh run with step target N and checkpoint interval C > 0 that
\* ends on its step target writes its checkpoints at the multiples of C
\* below N, in order, and then at N, whether or not C divides N.
CheckpointsOnGridThenEnd ==
    (Ended /\ FreshRun /\ steps >= 1 /\ checkpoint_scheduler.interval > 0
           /\ "target_b" \notin Range(callback)) =>
        /\ current_step = steps
        /\ CheckpointSteps(log) = GridThenEnd(steps, checkpoint_scheduler.interval)
        /\ (steps = 50 /\ checkpoint_scheduler.interval = 20
               => CheckpointSteps(log) = <<20, 40, 50>>)

\* the run of the scenario has ended, with a writer registered
ScenarioEnded ==
    /\ Ended /\ steps = 50 /\ current_step = 50
    /\ "write_a" \in Range(callback)
    /\ "target_b" \notin Range(callback)

\* The program started again: after a run, a new process builds a new
\* Simulation on the same output path, registers its writer and runs.
RestartScheds == {Scheduler(i, 0, 0) : i \in 1..MaxInterval}

RestartNext ==
    \/ \E s \in RestartScheds : runs = 0 /\ Add("write_a", s, <<>>)
    \/ \E arg \in RunArgs : runs = 0 /\ RunCall(arg)
    \/ Notify
    \/ InitialNonTargeters
    \/ EnterLoop
    \/ \E fails \in BOOLEAN : Iterate(fails)
    \/ Checkpoint
    \/ End
    \/ Interrupt
    \/ \E rst \in BOOLEAN : Processes(log) = 0 /\ Relaunch(rst)

RestartSpec == Init /\ [][RestartNext]_vars

\* the position in the log where the second process starts (0: it has not)
ProcessStart(l) ==
    IF Processes(l) = 0 THEN 0
    ELSE CHOOSE i \in 1..Len(l) : l[i].ev = "process"

\* the step of the last checkpoint written before position p
LastCheckpointBefore(l, p) ==
    LET c == {i \in 1..(p - 1) : l[i].ev = "checkpoint"}
    IN  IF c = {} THEN -1 ELSE l[CHOOSE i \in c : \A j \in c : j <= i].step

\* the run of the first process was interrupted, after it wrote a checkpoint
InterruptedAfterCheckpoint(l) ==
    LET p == ProcessStart(l) IN
    /\ p > 2
    /\ l[p - 1].ev = "goodbye"
    /\ l[p - 2].ev = "raise" /\ l[p - 2].cb = "KeyboardInterrupt"
    /\ LastCheckpointBefore(l, p) >= 0

\* how many times observer c was notified for step k
Notified(l, c, k) ==
    Cardinality({i \in 1..Len(l) :
        l[i].ev \in {"notify", "notify0"} /\ l[i].cb = c /\ l[i].step = k})

\* the second process, built with restart = True on an output path, runs
Resumed == Processes(log) = 1 /\ restart /\ output_path /\ runs = 1

SameRunBefore(l, i) ==
    {j \in 1..(i - 1) : \A k \in j..i : l[k].ev \notin {"run", "process"}}

\* ------------------------------------------------------------------------
\* C9: in a run, the SchedulerError of a scheduler without interval and
\* without target is raised during the preparation:
\* before the initial notifications, before any observer is notified and
\* before the backend advances, never in the loop.
SchedulerErrorInPreparation ==
    \A i \in 1..Len(log) :
          (log[i].ev = "raise" /\ log[i].cb = "SchedulerError") =>
              \A j \in SameRunBefore(log, i) :
                  log[j].ev \notin {"notify0", "notify", "starting", "advance"}

\* the place of observer c in the list q
Pos(q, c) == CHOOSE i \in 1..Len(q) : q[i] = c

\* the pairs of notifications of the loop for one step, the earlier first
DuePairs(l) ==
    {p \in (1..Len(l)) \X (1..Len(l)) :
        /\ p[1] < p[2]
        /\ l[p[1]].ev = "notify" /\ l[p[2]].ev = "notify"
        /\ l[p[1]].step = l[p[2]].step
        /\ p[1] \in SameRunBefore(l, p[2])}

\* C10 as stated: the observers due at one step are notified non targeters
\* first, targeters last, and within each class in the order of their
\* registration.
NotifiedInRegistrationOrder ==
    \A p \in DuePairs(log) :
        LET a == log[p[1]].cb
            b == log[p[2]].cb
        IN  /\ IsTargeter(a) => IsTargeter(b)
            /\ (IsTargeter(a) <=> IsTargeter(b))
                  => Pos(reg_order, a) < Pos(reg_order, b)

\* C10 as amended: non targeters first, targeters last; the targeters in
\* the order of their registration, the others in the reverse order of
\* their registration (the one registered last is notified first), the
\* registration of an observer being its last add().
NotifiedInListOrder ==
    \A p \in DuePairs(log) :
        LET a == log[p[1]].cb
            b == log[p[2]].cb
        IN  /\ IsTargeter(a) => IsTargeter(b)
            /\ (IsTargeter(a) /\ IsTargeter(b))
                  => Pos(reg_order, a) < Pos(reg_order, b)
            /\ (~IsTargeter(a) /\ ~IsTargeter(b))
                  => Pos(reg_order, a) > Pos(reg_order, b)

\* four observers were notified in the loop for one step
FourNotifiedAtOneStep ==
    \E s \in 1..MaxSteps :
        \A c \in Writers \cup {"target_steps", "target_b"} :
            \E i \in 1..Len(log) :
                log[i].ev = "notify" /\ log[i].cb = c /\ log[i].step = s

\* ------------------------------------------------------------------------
\* Runs with a writer, the check for the STOP file and the check of the
\* wall time, where observers and the checkpoint hook can fail.
SignalCallbacks == {"write_a", "user_stop", "target_walltime"}
SignalScheds == {Scheduler(i, 0, 0) : i \in 1..MaxInterval}

SignalNext ==
    \/ \E c \in SignalCallbacks, s \in SignalScheds : \E a \in SimArgs(c) :
          runs = 0 /\ Add(c, s, a)
    \/ \E arg \in RunArgs : runs = 0 /\ RunCall(arg)
    \/ Notify
    \/ NotifyFails
    \/ InitialNonTargeters
    \/ EnterLoop
    \/ \E fails \in BOOLEAN : Iterate(fails)
    \/ Checkpoint
    \/ CheckpointFails
    \/ End
    \/ EndFails
    \/ Interrupt

SignalSpec == Init /\ [][SignalNext]_vars

\* run() returned through the handler of SimulationEnd, raised in the loop:
\* the log ends with the notification that raised, the final checkpoint,
\* the report and the closing message
EndedInLoop == Ended /\ Len(log) >= 4 /\ log[Len(log) - 3].ev = "notify"

\* observer c was notified in the loop for step s, in the run of event i
NotifiedBefore(l, i, c, s) ==
    \E j \in SameRunBefore(l, i) :
        l[j].ev = "notify" /\ l[j].cb = c /\ l[j].step = s

\* the registered writers whose scheduler makes them due at step s
DueWriters(s) ==
    {c \in Range(callback) \cap Writers :
        Resolvable(cbk_params[c].scheduler) /\ now(cbk_params[c].scheduler, s)}

\* C11: when a run ends on SimulationEnd raised at step s of the loop, every
\* writer due at s was notified for s before; and no observer that can
\* raise the end of the run (a targeter, the check for the STOP file) is
\* notified for a step before a writer is notified for that step.
DueWritersNotifiedBeforeEnd ==
    /\ EndedInLoop =>
          \A c \in DueWriters(current_step) :
              NotifiedBefore(log, Len(log) - 3, c, current_step)
    /\ \A p \in DuePairs(log) :
          log[p[1]].cb \in Targeters \cup Stoppers => log[p[2]].cb \notin Writers

\* ------------------------------------------------------------------------
\* the checkpoints written for a step that the loop of the run reached
LoopStepCheckpoints(l) ==
    {i \in 1..Len(l) :
        /\ l[i].ev = "checkpoint"
        /\ \E j \in SameRunBefore(l, i) : l[j].ev = "advance" /\ l[j].step = l[i].step}

\* the registered observers whose scheduler makes them due at step s
DueObservers(s) ==
    {c \in Range(callback) :
        Resolvable(cbk_params[c].scheduler) /\ now(cbk_params[c].scheduler, s)}

\* C12 as stated: a checkpoint for step s, of the loop or final, is written
\* only after all the observers due at s have been notified for s.
CheckpointAfterAllDue ==
    \A i \in LoopStepCheckpoints(log) :
        \A c \in DueObservers(log[i].step) :
            NotifiedBefore(log, i, c, log[i].step)

\* C12 as amended: no observer is notified for step s after a checkpoint
\* was written for s in the run; a checkpoint of the loop is written after
\* all the observers due at s were notified; the final checkpoint is
\* written right after the notification that raised SimulationEnd, the due
\* observers that were not notified being behind the raising one in the list.
CheckpointAfterNotifications ==
    /\ \A i \in 1..Len(log) :
          log[i].ev = "checkpoint" =>
              \A j \in (i + 1)..Len(log) :
                  (i \in SameRunBefore(log, j) /\ log[j].step = log[i].step)
                      => log[j].ev \notin {"notify", "notify0"}
    /\ \A i \in LoopStepCheckpoints(log) :
          IF log[i].n = 0
          THEN \A c \in DueObservers(log[i].step) :
                   NotifiedBefore(log, i, c, log[i].step)
          ELSE /\ log[i - 1].ev = "notify" /\ log[i - 1].n = 1
               /\ log[i - 1].step = log[i].step
               /\ \A c \in DueObservers(log[i].step) :
                     \/ NotifiedBefore(log, i, c, log[i].step)
                     \/ Pos(callback, c) > Pos(callback, log[i - 1].cb)

\* a checkpoint of the loop was written after a writer and a targeter were
\* notified for its step, and the run ended later with its final checkpoint
CheckpointAfterTwoNotified ==
    /\ EndedInLoop
    /\ \E i \in LoopStepCheckpoints(log) :
          /\ log[i].n = 0
          /\ log[i].step < current_step
          /\ NotifiedBefore(log, i, "write_a", log[i].step)
          /\ NotifiedBefore(log, i, "target_b", log[i].step)

\* ------------------------------------------------------------------------
\* the run of the first process ended on SimulationEnd: the step of its end
\* (-1: it did not end that way, or no second process has started)
FirstEndedAt(l) ==
    LET p == ProcessStart(l) IN
    IF /\ p > 3
       /\ l[p - 1].ev = "goodbye" /\ l[p - 2].ev = "report"
       /\ l[p - 3].ev = "checkpoint" /\ l[p - 3].n = 1
    THEN l[p - 3].step ELSE -1

SignalsRaised(l) ==
    {i \in 1..Len(l) :
        \/ l[i].ev \in {"notify", "notify0"} /\ l[i].n = 1
        \/ l[i].ev = "raise" /\ l[i].cb = "WallTimeLimit"}

\* the checkpoint hook raised in the run that event i belongs to
HookFailed(l, i) ==
    \E j \in 1..Len(l) :
        /\ l[j].ev = "raise" /\ l[j].cb = "checkpoint"
        /\ (i \in SameRunBefore(l, j) \/ j \in SameRunBefore(l, i))

\* C14: a run in which a termination signal was raised (target reached,
\* wall time exceeded, stop asked by the user) returns normally, after the
\* same cleanup: final checkpoint, report of the end, closing message; no
\* exception reaches the caller and no failure is logged.
SignalsEndNormally ==
    (pc = "idle" /\ Len(log) >= 1) =>
        \A i \in SignalsRaised(log) :
            (i \in SameRunBefore(log, Len(log)) /\ ~HookFailed(log, i)) =>
                /\ outcome = "ended"
                /\ Len(log) >= i + 3
                /\ SubSeq(log, Len(log) - 2, Len(log))
                      = <<Ev("checkpoint", "", current_step, 1),
                          Ev("report", "", current_step, 0),
                          Ev("goodbye", "", current_step, 0)>>

\* ------------------------------------------------------------------------
\* the places of the log where the backend failed to advance, the
\* checkpoint hook failed or an observer raised an exception
FailuresRaised(l) ==
    {i \in 1..Len(l) :
        l[i].ev = "raise" /\ l[i].cb \in {"backend", "checkpoint", "Exception"}}

\* the failure at place i was logged as a failed simulation, the closing
\* message followed, the exception reached the caller of run() and the
\* backend was not asked to advance again in that run
FailureEndsRun(l, i) ==
    /\ Len(l) >= i + 2
    /\ l[i + 1].ev = "failed"
    /\ l[i + 2].ev = "goodbye"
    /\ (Len(l) = i + 2 => pc = "idle" /\ outcome = "failed")
    /\ \A j \in (i + 1)..Len(l) :
          i \in SameRunBefore(l, j) => l[j].ev # "advance"

\* C15: every failure that is no termination signal and no interrupt (the
\* backend fails to advance, the checkpoint hook fails, an observer raises)
\* ends the run: 'simulation failed' is logged, the closing message is
\* logged, the exception is raised to the caller, no advance is tried again.
FailuresLoggedAndRaised ==
    \A i \in FailuresRaised(log) : FailureEndsRun(log, i)

\* the same for the failures raised outside the handler of SimulationEnd
FailuresInTryLoggedAndRaised ==
    \A i \in FailuresRaised(log) :
        (i > 1 /\ log[i - 1].ev \in {"notify", "notify0"} /\ log[i - 1].n = 1)
            \/ FailureEndsRun(log, i)

\* ------------------------------------------------------------------------
\* C16: every call of run() that has come to its end, whichever way
\* (SimulationEnd, interrupt, failure in the loop, failure during the
\* preparation), has logged the closing message as its last act.
ClosingMessageLogged ==
    (runs > 0 /\ pc = "idle") =>
        /\ log # <<>>
        /\ log[Len(log)].ev = "goodbye"

\* ------------------------------------------------------------------------
\* C17: a KeyboardInterrupt delivered while the initial pass or the loop of
\* run() is running ends the run gracefully: the closing message is the
\* next thing logged, no failure is logged, and run() returns to its
\* caller without raising the interrupt again.
InterruptEndsGracefully ==
    \A i \in 1..Len(log) :
        (log[i].ev = "raise" /\ log[i].cb = "KeyboardInterrupt") =>
            /\ Len(log) >= i + 1
            /\ log[i + 1].ev = "goodbye"
            /\ (Len(log) = i + 1 => pc = "idle" /\ outcome = "interrupted")

\* a run was interrupted in its loop, after the backend had advanced
InterruptedInLoop ==
    /\ pc = "idle" /\ outcome = "interrupted"
    /\ current_step > initial_step
    /\ Len(log) >= 2
    /\ log[Len(log) - 1] = Ev("raise", "KeyboardInterrupt", current_step, 0)

\* ------------------------------------------------------------------------
\* run() returned after the check for the STOP file raised SimulationEnd
StoppedByUser ==
    Ended /\ Len(log) >= 4 /\ log[Len(log) - 3].cb \in Stoppers

\* run() returned after a KeyboardInterrupt
Interrupted == pc = "idle" /\ outcome = "interrupted"

\* C18: a run ended by an interrupt and a run ended by the stop of the user
\* get the same cleanup: a final checkpoint for the current step is written
\* (with an output path the step file holds current_step), then the
\* closing message is logged.
FinalCheckpointOnInterruptAndStop ==
    (StoppedByUser \/ Interrupted) =>
        /\ log[Len(log)].ev = "goodbye"
        /\ \E i \in SameRunBefore(log, Len(log)) :
              log[i] = Ev("checkpoint", "", current_step, 1)
        /\ (output_path => chk_step = current_step)

\* the same for the stop of the user alone
FinalCheckpointOnStop ==
    StoppedByUser =>
        /\ log[Len(log)].ev = "goodbye"
        /\ \E i \in SameRunBefore(log, Len(log)) :
              log[i] = Ev("checkpoint", "", current_step, 1)
        /\ (output_path => chk_step = current_step)

\* ------------------------------------------------------------------------
\* Several calls of run() on one instance: a first process runs once and
\* leaves its step file, a second process builds its Simulation on the
\* same output path and calls run() up to MaxRuns times.
RerunNext ==
    \/ \E arg \in RunArgs :
          runs < (IF Processes(log) = 0 THEN 1 ELSE MaxRuns) /\ RunCall(arg)
    \/ Notify
    \/ InitialNonTargeters
    \/ EnterLoop
    \/ \E fails \in BOOLEAN : Iterate(fails)
    \/ Checkpoint
    \/ End
    \/ Interrupt
    \/ \E rst \in BOOLEAN : Processes(log) = 0 /\ Relaunch(rst)

RerunSpec == Init /\ [][RerunNext]_vars

\* C19: on one instance current_step never decreases, over any sequence of
\* calls of run(), the reading of the checkpoint in the preparation of a
\* restart included; and every advance of the loop increases it.
CurrentStepNeverDecreases ==
    [][Processes(log') = Processes(log) =>
          /\ current_step' >= current_step
          /\ (pc = "loop" /\ pc' = "notify" => current_step' > current_step)]_vars

\* the same within the calls of run(), the preparation left aside
CurrentStepNeverDecreasesInRun ==
    [][(Processes(log') = Processes(log) /\ pc # "idle") =>
          /\ current_step' >= current_step
          /\ (pc = "loop" /\ pc' = "notify" => current_step' > current_step)]_vars

\* ------------------------------------------------------------------------
\* the number of steps the backend was asked to advance, all advances of
\* the present call of run() together
RECURSIVE Advanced(_)
Advanced(l) ==
    IF l = <<>> THEN 0
    ELSE LET e == l[Len(l)] IN
         IF e.ev \in {"run", "process"} THEN 0
         ELSE (IF e.ev = "advance" THEN e.n ELSE 0)
              + Advanced(SubSeq(l, 1, Len(l) - 1))

\* the advances of the run that event i belongs to, before i
AdvancesBefore(l, i) == {j \in SameRunBefore(l, i) : l[j].ev = "advance"}

\* C20: every advance of the loop asks the backend for a strictly positive
\* number of steps, next_step - current_step; the advances of a run follow
\* one another, each starting at the step the one before reached (none is
\* started before the one before is over); and the numbers of steps asked
\* for add up to current_step - initial_step.
AdvancesArePositive ==
    /\ \A i \in 1..Len(log) :
          log[i].ev = "advance" =>
              /\ log[i].n >= 1
              /\ \A j \in AdvancesBefore(log, i) :
                    /\ log[j].step < log[i].step
                    /\ log[j].step <= log[i].step - log[i].n
              /\ \E j \in SameRunBefore(log, i) :
                    /\ log[j].ev \in {"starting", "advance"}
                    /\ log[j].step = log[i].step - log[i].n
    /\ Advanced(log) = current_step - initial_step

\* a run that restarted at a step above 0 has advanced twice
AdvancedTwice ==
    /\ Resumed /\ initial_step >= 1
    /\ current_step = initial_step + 2
    /\ \E i, j \in 1..Len(log) :
          /\ i \in AdvancesBefore(log, j)
          /\ log[j].ev = "advance"
          /\ j \in SameRunBefore(log, Len(log)) \cup {Len(log)}

\* ------------------------------------------------------------------------
\* C21: a run that starts at current_step c (the step after the
\* preparation) with run length steps >= 1 and ends on its step target
\* ends at current_step = c + steps, whatever c is: a second call of run()
\* on the instance, or a run resumed from a checkpoint.
EndsAtStartPlusSteps ==
    (Ended /\ steps >= 1 /\ Range(callback) = {"target_steps"}) =>
        current_step = initial_step + steps

\* the same for the first run of a Simulation that does not restart
FreshRunEndsAtSteps ==
    (Ended /\ steps >= 1 /\ Range(callback) = {"target_steps"}
           /\ runs = 1 /\ ~restart) =>
        current_step = initial_step + steps

\* ------------------------------------------------------------------------
\* C22: remove() of a registered observer deletes its entry of the list and
\* its scheduler and arguments, and leaves the other entries, their
\* schedulers, their arguments and their order as they were; remove() of an
\* observer that is not registered changes nothing (and returns normally).
RemoveLeavesOthers ==
    [][op'.name = "remove" =>
          LET c == op'.cb IN
          IF c \in Range(callback)
          THEN /\ op'.found
               /\ callback' = SelectSeq(callback, LAMBDA x : x # c)
               /\ Len(callback') = Len(callback) - 1
               /\ DOMAIN cbk_params' = DOMAIN cbk_params \ {c}
               /\ \A x \in DOMAIN cbk_params' : cbk_params'[x] = cbk_params[x]
          ELSE /\ ~op'.found
               /\ callback' = callback
               /\ cbk_params' = cbk_params]_vars

\* a registered observer was removed from a list of four: a writer and two
\* targeters remain
RemovedOneOfFour ==
    /\ op.name = "remove" /\ op.found
    /\ Len(callback) = 3
    /\ callback[1] \in Writers
    /\ callback[2] \in Targeters

\* ------------------------------------------------------------------------
\* s.calls = v, an assignment of the caller
SetCalls(v) ==
    /\ sch' = [sch EXCEPT !.calls = v]
    /\ op' = [NoOp EXCEPT !.name = "calls"]
    /\ result' = NoResult
    /\ UNCHANGED <<this>>
    /\ UNCHANGED simVars

\* A Scheduler built without interval: whatever interval it holds later
\* was resolved from its target and calls.
CacheInit ==
    /\ \E c \in SchedCalls, t \in SchedTargets : sch = Scheduler(0, c, t)
    /\ this = 0
    /\ result = NoResult
    /\ SimFixed

CacheNext ==
    \/ \E t \in SchedThis : CallNext(t)
    \/ \E t \in SchedThis : CallNow(t)
    \/ \E v \in SchedTargets : SetTarget(v)
    \/ \E v \in SchedCalls : SetCalls(v)

CacheSpec == CacheInit /\ [][CacheNext]_vars

\* C23: the interval of a Scheduler is resolved by the first next or now
\* that can resolve it, and is kept from then on: an assignment of target
\* or calls after that changes neither the interval nor what next returns,
\* which is the next multiple of the kept interval.
IntervalCached ==
    [][/\ (sch.interval = 0 /\ op'.name \in {"next", "now"} /\ Resolvable(sch)) =>
             /\ sch'.interval >= 1
             /\ sch'.interval = (IF sch.calls # 0
                                 THEN Max(1, sch.target \div sch.calls)
                                 ELSE sch.target)
       /\ sch.interval # 0 =>
             /\ sch'.interval = sch.interval
             /\ (op'.name = "next" =>
                    /\ result'.kind = "value"
                    /\ result'.val > this'
                    /\ result'.val % sch.interval = 0
                    /\ result'.val - this' <= sch.interval)]_vars

\* next was asked after the target or calls had been changed: it answered
\* with the interval kept, which is not the one the present target and
\* calls would give
NextWithStaleTarget ==
    /\ op.name = "next" /\ result.kind = "value"
    /\ sch.interval # 0
    /\ Resolvable([sch EXCEPT !.interval = 0])
    /\ period([sch EXCEPT !.interval = 0]) # sch.interval

GridRestartSpec == (Init \/ ScenarioInit) /\ [][RestartNext]_vars

JustAdvanced ==
    pc = "notify" /\ log # <<>> /\ log[Len(log)].ev = "advance"

\* the step the last advance started from
AdvancedFrom == current_step - log[Len(log)].n

\* C25: in every iteration next_step is the minimum of next(current_step)
\* over the schedulers of all registered observers and the checkpoint
\* scheduler; the observers notified after the advance are those whose
\* next(current_step) was that minimum, in the order of the list; when the
\* checkpoint scheduler alone attains the minimum no observer is notified
\* and the checkpoint is due.
DueAreThoseAtMinimum ==
    JustAdvanced =>
        LET from == AdvancedFrom
            nxt == [c \in Range(callback) |-> next(cbk_params[c].scheduler, from)]
            chk == next(checkpoint_scheduler, from)
            due == {c \in Range(callback) : nxt[c] = current_step}
        IN  /\ \A c \in Range(callback) : nxt[c] >= current_step
            /\ chk >= current_step
            /\ (due # {} \/ chk = current_step)
            /\ next_checkpoint = chk
            /\ Range(pending) = due
            /\ Len(pending) = Cardinality(due)
            /\ \A i, j \in 1..Len(pending) :
                  i < j => Pos(callback, pending[i]) < Pos(callback, pending[j])
            /\ (due = {} => pending = <<>> /\ CheckpointDue(current_step, next_checkpoint))

\* after an advance two observers are due and a third is not
TwoDueOneNot ==
    /\ JustAdvanced
    /\ Len(pending) = 2
    /\ Len(callback) >= 3
    /\ ~CheckpointDue(current_step, next_checkpoint)

\* ------------------------------------------------------------------------
\* the initial pass is over: the loop is about to start
LoopStarts ==
    pc = "loop" /\ log # <<>> /\ log[Len(log)].ev = "starting"

\* how many times observer c was notified in the initial pass of this run
InitialNotifications(l, c) ==
    Cardinality({j \in SameRunBefore(l, Len(l)) :
                    l[j].ev = "notify0" /\ l[j].cb = c})

\* C26: before the first iteration of the loop every targeter is notified
\* exactly once, in every run; the other observers are notified (once) if
\* and only if the run is a fresh one, restart false, at step 0; in a run
\* with restart true they are not notified in the initial pass, whatever
\* the step read from the checkpoint.
InitialPassByRestart ==
    LoopStarts =>
        /\ \A c \in Range(targeters(callback)) : InitialNotifications(log, c) = 1
        /\ \A c \in Range(non_targeters(callback)) :
              InitialNotifications(log, c) =
                  (IF ~restart /\ initial_step = 0 THEN 1 ELSE 0)

\* what the initial pass does: the other observers are notified when the
\* run starts at step 0, with or without restart
InitialPassByStep ==
    LoopStarts =>
        /\ \A c \in Range(targeters(callback)) : InitialNotifications(log, c) = 1
        /\ \A c \in Range(non_targeters(callback)) :
              InitialNotifications(log, c) = (IF initial_step = 0 THEN 1 ELSE 0)

\* a run with restart true read step 0 from the checkpoint and notified
\* the writer in its initial pass
RestartedAtStepZeroNotified ==
    /\ LoopStarts /\ Resumed
    /\ chk_step = 0 /\ initial_step = 0
    /\ InitialNotifications(log, "write_a") = 1

\* ------------------------------------------------------------------------
\* the checkpoints written in the run of event i for the step of event i
CheckpointsForStep(l, i) ==
    {j \in 1..Len(l) :
        /\ l[j].ev = "checkpoint" /\ l[j].step = l[i].step
        /\ (j = i \/ j \in SameRunBefore(l, i) \/ i \in SameRunBefore(l, j))}

\* C27: within one run no step has its checkpoint written twice; when the
\* step at which the run ends is also due on the checkpoint schedule,
\* exactly one checkpoint is written for that step.
NoStepCheckpointedTwice ==
    /\ \A i \in 1..Len(log) :
          log[i].ev = "checkpoint" => CheckpointsForStep(log, i) = {i}
    /\ (EndedInLoop /\ CheckpointDue(current_step, next_checkpoint)) =>
          CheckpointsForStep(log, Len(log) - 2) = {Len(log) - 2}

\* a run ended in its loop at a step due on the checkpoint schedule, after
\* a checkpoint of the loop at an earlier step
EndedOnCheckpointStep ==
    /\ EndedInLoop /\ CheckpointDue(current_step, next_checkpoint)
    /\ now(checkpoint_scheduler, current_step)
    /\ \E j \in SameRunBefore(log, Len(log) - 2) :
          log[j].ev = "checkpoint" /\ log[j].n = 0 /\ log[j].step < current_step

\* ------------------------------------------------------------------------
\* run() is called with restart true and resumes from a checkpoint at a
\* step above 0
ResumesAboveZero ==
    /\ runs' = runs + 1
    /\ restart /\ output_path /\ chk_step > 0
    /\ initial_step' = chk_step

\* C28: when restart is true and the run resumes from a checkpoint at a
\* step k > 0, the steps argument of run() does not change the run length:
\* the step target of the resumed run is that of the original run.
RestartKeepsRunLength ==
    [][ResumesAboveZero =>
          /\ steps' = steps
          /\ cbk_params'["target_steps"].args = <<steps>>]_vars

\* what run() does: the run length is kept only by a Simulation that has
\* already advanced (current_step > 0 when run() is called)
RestartKeepsRunLengthOnceAdvanced ==
    [][(ResumesAboveZero /\ current_step > 0) => steps' = steps]_vars

\* ------------------------------------------------------------------------
\* Runs with observers whose scheduler is given a number of calls only,
\* Scheduler(None, calls=c), or an interval of one step.
CallsScheds ==
    {Scheduler(1, 0, 0)} \cup {Scheduler(0, c, 0) : c \in 1..MaxCalls}

CallsCallbacks == {"write_a", "target_b"}

CallsNext ==
    \/ \E c \in CallsCallbacks, s \in CallsScheds : \E a \in SimArgs(c) :
          runs = 0 /\ Add(c, s, a)
    \/ \E arg \in RunArgs : runs = 0 /\ RunCall(arg)
    \/ Notify
    \/ InitialNonTargeters
    \/ EnterLoop
    \/ \E fails \in BOOLEAN : Iterate(fails)
    \/ Checkpoint
    \/ End
    \/ Interrupt

CallsSpec == Init /\ [][CallsNext]_vars

\* C29: during the preparation, before any scheduler is asked for a next
\* step, the target of every registered scheduler is set from the run
\* length, so that a scheduler registered with calls only resolves to the
\* interval max(1, run length div calls): once run() has prepared a run of
\* one step or more, no SchedulerError is raised for such a scheduler.
TargetsSetInPreparation ==
    (runs >= 1 /\ steps >= 1) =>
        /\ \A c \in Range(callback) :
              LET s == cbk_params[c].scheduler IN
              s.calls > 0 =>
                  /\ s.target = steps
                  /\ s.interval \in {0, Max(1, steps \div s.calls)}
        /\ (\E c \in Range(callback) \ {"target_steps"} : TRUE) =>
              ~(\E i \in 1..Len(log) :
                    log[i].ev = "raise" /\ log[i].cb = "SchedulerError"
                    /\ checkpoint_scheduler.interval > 0)

\* what run() does with a writer that has calls only: SchedulerError is
\* raised while the observers are reported, before the try
CallsOnlyWriterRaises ==
    (runs >= 1 /\ "write_a" \in Range(callback)
               /\ cbk_params["write_a"].scheduler.calls > 0) =>
        /\ outcome = "raised" /\ pc = "idle"
        /\ log[Len(log)].ev = "raise"
        /\ log[Len(log)].cb \in {"SchedulerError", "IOError"}
        /\ \A i \in 1..Len(log) : log[i].ev \notin {"notify0", "notify", "advance"}

\* ------------------------------------------------------------------------
\* run() has just prepared the run (or was left while it prepared it)
JustPrepared ==
    log # <<>> /\ log[Len(log)].ev \in {"prepared", "raise"}

\* the events of the preparation of the run that was just prepared
Preparation(l) == {j \in SameRunBefore(l, Len(l)) \cup {Len(l)} : l[j].ev # "run"}

\* the calls of read_checkpoint in the preparation: one that returned, or
\* one that raised IOError for a missing step file
ReadsInPreparation(l) ==
    {j \in Preparation(l) :
        l[j].ev = "read" \/ (l[j].ev = "raise" /\ l[j].cb = "IOError")}

\* the calls of the clear hook of observer c in the preparation
ClearsInPreparation(l, c) ==
    {j \in Preparation(l) : l[j].ev = "clear" /\ l[j].cb = c}

\* restart true: the checkpoint is read once and no clear hook is called
ReadsOnly(l) ==
    /\ Cardinality(ReadsInPreparation(l)) = 1
    /\ \A c \in Callbacks : ClearsInPreparation(l, c) = {}

\* restart false: the clear hook of every registered observer that has one
\* is called, an observer without the hook is skipped without error, and
\* the checkpoint is not read
ClearsOnly(l) ==
    /\ ReadsInPreparation(l) = {}
    /\ \A c \in Callbacks :
          Cardinality(ClearsInPreparation(l, c)) =
              (IF c \in Range(callback) \cap HasClear THEN 1 ELSE 0)
    /\ \A j \in Preparation(l) :
          l[j].ev = "raise" => l[j].cb = "SchedulerError"

\* C30 as stated: the preparation does exactly one of two things: with
\* restart true it reads the checkpoint once and calls no clear hook; with
\* restart false it calls the clear hook of every registered observer that
\* has one and does not read the checkpoint.
PreparationReadsOrClears ==
    JustPrepared => IF restart THEN ReadsOnly(log) ELSE ClearsOnly(log)

\* C30 as amended: so it is when the Simulation has an output path; without
\* an output path the preparation neither reads nor clears.
PreparationReadsOrClearsWithPath ==
    JustPrepared =>
        IF output_path
        THEN IF restart THEN ReadsOnly(log) ELSE ClearsOnly(log)
        ELSE /\ ReadsInPreparation(log) = {}
             /\ \A c \in Callbacks : ClearsInPreparation(log, c) = {}

\* a run with restart true has read the checkpoint in its preparation, in a
\* process started after one whose run had cleared the output of its writer
\* and skipped the targeter for steps, which has no clear hook
ReadAfterCleared ==
    /\ JustPrepared /\ Resumed
    /\ log[Len(log)].ev = "prepared"
    /\ \E j \in Preparation(log) : log[j].ev = "read" /\ log[j].step >= 1
    /\ "write_a" \in Range(callback)
    /\ \E i \in 1..ProcessStart(log) : log[i].ev = "clear" /\ log[i].cb = "write_a"

\* ------------------------------------------------------------------------
\* the step of the backend state persisted last: the hook
\* backend.write_checkpoint() returned for it (-1: it never did)
BackendCheckpointStep(l) == LastCheckpointBefore(l, Len(l) + 1)

\* C31: wherever the run loop stands (before an advance, before a
\* notification, at the end of run), the step file and the persisted state
\* of the backend belong to the same step, also after the checkpoint hook
\* of the backend has failed: the step file is never ahead of the state.
StepFileMatchesBackendState ==
    output_path => chk_step = BackendCheckpointStep(log)

\* what write_checkpoint gives: the two agree as long as no hook has failed
StepFileMatchesUnlessHookFailed ==
    (output_path /\ \A i \in 1..Len(log) :
                       ~(log[i].ev = "raise" /\ log[i].cb = "checkpoint"))
        => chk_step = BackendCheckpointStep(log)

\* ------------------------------------------------------------------------
\* the events of the run that runs or ran last
LastRun(l) ==
    {i \in 1..Len(l) : \A k \in i..Len(l) : l[k].ev \notin {"run", "process"}}

\* how many times observer c was notified for step k by the loop of the
\* run that runs or ran last
LoopNotified(l, c, k) ==
    Cardinality({i \in LastRun(l) :
        l[i].ev = "notify" /\ l[i].cb = c /\ l[i].step = k})

\* C32: with schedulers of fixed interval, the observers selected by the
\* loop (next(previous step) = the minimum) are those that are due by
\* now(current_step), current_step mod interval = 0, at every step the loop
\* visits; so an observer of interval p is notified exactly once for each
\* multiple of p in (initial_step, current_step] once the iteration of
\* current_step is over, and for no other step of the loop.
SelectedAreThoseDueNow ==
    /\ JustAdvanced => Range(pending) = DueObservers(current_step)
    /\ \A i \in LastRun(log) :
          log[i].ev = "notify" =>
              /\ now(cbk_params[log[i].cb].scheduler, log[i].step)
              /\ LoopNotified(log, log[i].cb, log[i].step) = 1
    /\ (pc = "loop" /\ outcome = "running") =>
          \A c \in Range(callback) : \A k \in (initial_step + 1)..current_step :
              LoopNotified(log, c, k) =
                  (IF now(cbk_params[c].scheduler, k) THEN 1 ELSE 0)

\* the loop has visited steps 1 and 2: an observer of interval 1 was
\* notified for both, an observer of interval 2 for step 2 only
NotifiedOnOwnMultiples ==
    /\ pc = "loop" /\ outcome = "running" /\ current_step = 2
    /\ \E c, d \in Range(callback) \ {"target_steps"} :
          /\ cbk_params[c].scheduler.interval = 1
          /\ cbk_params[d].scheduler.interval = 2
          /\ LoopNotified(log, c, 1) = 1 /\ LoopNotified(log, c, 2) = 1
          /\ LoopNotified(log, d, 1) = 0 /\ LoopNotified(log, d, 2) = 1

\* ------------------------------------------------------------------------
\* Runs whose backend always returns and that nobody interrupts: up to
\* MaxRuns calls of run() on one instance, with a writer of fixed interval.
\* A run of length steps that starts at c ends below c + 2 * steps, so the
\* guard on current_step never holds a run back.
LiveCap == 2 * MaxRuns * MaxSteps

LiveNext ==
    \/ \E s \in RestartScheds : runs = 0 /\ Add("write_a", s, <<>>)
    \/ \E arg \in RunArgs : runs < MaxRuns /\ RunCall(arg)
    \/ Notify
    \/ InitialNonTargeters
    \/ EnterLoop
    \/ current_step <= LiveCap /\ Iterate(FALSE)
    \/ Checkpoint
    \/ End

\* run() goes on as long as it can: no step of it waits for ever
LiveSpec == Init /\ [][LiveNext]_vars /\ WF_vars(LiveNext)

\* the run length is one step or more and every scheduler has a fixed
\* interval
FixedIntervals ==
    /\ steps >= 1
    /\ checkpoint_scheduler.interval >= 1
    /\ \A c \in Range(callback) : cbk_params[c].scheduler.interval >= 1

\* run() has prepared such a run
RunStarted == pc = "targeters" /\ log[Len(log)].ev = "prepared" /\ FixedIntervals

\* run() has returned through the handler of SimulationEnd, raised by the
\* targeter for steps
RunDone ==
    /\ Ended /\ Len(log) >= 4
    /\ log[Len(log) - 3].ev \in {"notify0", "notify"}
    /\ log[Len(log) - 3].cb = "target_steps" /\ log[Len(log) - 3].n = 1

\* C33: for every run length steps >= 1, every start step and every set of
\* observers and checkpoint scheduler of fixed interval, the loop ends:
\* after finitely many iterations the targeter for steps raises
\* SimulationEnd and run() returns through its handler, provided every
\* advance of the backend returns. A run that was started is left in no
\* other way.
RunTerminates ==
    /\ RunStarted ~> RunDone
    /\ [](pc = "idle" /\ runs >= 1 /\ FixedIntervals
             => RunDone \/ log[Len(log)] = Ev("raise", "IOError", current_step, 0))

\* a run that started off the multiples of its length has ended, after
\* its loop advanced
EndedFromOffGrid ==
    /\ Ended /\ runs = 2 /\ EndedInLoop
    /\ steps >= 2
    /\ initial_step % steps # 0
    /\ current_step > initial_step
    /\ "write_a" \in Range(callback)

\* ------------------------------------------------------------------------
\* run() was left because the backend failed to advance
BackendFailed ==
    /\ pc = "idle" /\ outcome = "failed" /\ Len(log) >= 3
    /\ log[Len(log) - 2].ev = "raise" /\ log[Len(log) - 2].cb = "backend"

\* the step the run had reached before its last event: that of its last
\* advance, or the step it started from
StepReached(l, start) ==
    LET a == {i \in LastRun(l) : l[i].ev = "advance"}
    IN  IF a = {} THEN start ELSE l[CHOOSE i \in a : \A j \in a : j <= i].step

\* C34: when the backend fails to advance in an iteration, current_step
\* keeps the value it had before that advance, no observer is notified for
\* the step that was not reached, and no checkpoint is written: the step
\* file holds the step of the last checkpoint written before the failure.
FailedAdvanceLeavesStep ==
    BackendFailed =>
        /\ current_step = StepReached(log, initial_step)
        /\ log[Len(log) - 2].step = current_step
        /\ \A i \in LastRun(log) :
              log[i].ev \in {"notify0", "notify", "checkpoint"}
                  => /\ log[i].step <= current_step
                     /\ i < Len(log) - 2
        /\ log[Len(log) - 1].ev = "failed" /\ log[Len(log)].ev = "goodbye"
        /\ (output_path => chk_step = LastCheckpointBefore(log, Len(log) - 2))

\* the backend failed in the third iteration of a run that had written a
\* checkpoint in its second
FailedAfterCheckpoint ==
    /\ BackendFailed /\ output_path
    /\ chk_step = 2 /\ current_step = 2
    /\ checkpoint_scheduler.interval = 2
    /\ \E i \in LastRun(log) : log[i].ev = "checkpoint" /\ log[i].step = chk_step

\* ------------------------------------------------------------------------
\* a run was prepared whose step target was met already at its start
TargetMetAtStart ==
    /\ runs >= 1 /\ outcome # "raised"
    /\ "target_steps" \in Range(callback)
    /\ TargetStepsRaises(initial_step, cbk_params["target_steps"].args)

\* C35: when the step target is met already at the start of a run, as on a
\* resume from the checkpoint of a run that had reached its target, the run
\* ends in the initial pass: the backend never advances, no observer other
\* than a targeter is notified, current_step stays, and one final
\* checkpoint holding that step is written.
TargetMetEndsInInitialPass ==
    TargetMetAtStart =>
        /\ pc \in {"targeters", "ending", "idle"}
        /\ current_step = initial_step
        /\ \A i \in LastRun(log) :
              /\ log[i].ev \notin {"advance", "notify", "starting"}
              /\ log[i].ev = "notify0" => IsTargeter(log[i].cb)
        /\ pc = "idle" =>
              /\ outcome \in {"ended", "interrupted"}
              /\ outcome = "ended" =>
                    /\ Cardinality({i \in LastRun(log) : log[i].ev = "checkpoint"}) = 1
                    /\ log[Len(log) - 2] = Ev("checkpoint", "", initial_step, 1)
                    /\ log[Len(log) - 3].ev = "notify0" /\ log[Len(log) - 3].n = 1
                    /\ log[Len(log) - 3].step = initial_step
                    /\ IsTargeter(log[Len(log) - 3].cb)
                    /\ (output_path => chk_step = initial_step)

\* the run of a new process, restarting from the final checkpoint of a run
\* that had reached its target, has ended at once, its writer not notified
ResumedOnTargetEnded ==
    /\ Resumed /\ Ended /\ TargetMetAtStart
    /\ FirstEndedAt(log) = initial_step
    /\ initial_step >= 2
    /\ steps = initial_step
    /\ "write_a" \in Range(callback)

\* ------------------------------------------------------------------------
\* Any sequence of add(), remove() and run() on one instance: observers are
\* registered and removed before and between up to MaxRuns runs.
UseCallbacks == {"write_a", "target_b", "target_steps"}

\* Simulation(backend, steps=1, checkpoint_interval=1)
UseInit ==
    /\ callback = <<>>
    /\ cbk_params = <<>>
    /\ reg_order = <<>>
    /\ checkpoint_scheduler = Scheduler(1, 0, 0)
    /\ steps = 1
    /\ current_step = 0
    /\ initial_step = 0
    /\ restart = FALSE
    /\ output_path = FALSE
    /\ chk_step = -1
    /\ pc = "idle"
    /\ pending = <<>>
    /\ next_checkpoint = 0
    /\ log = <<>>
    /\ outcome = "none"
    /\ runs = 0
    /\ op = NoOp
    /\ SchedFixed

UseNext ==
    \/ \E c \in UseCallbacks : \E a \in SimArgs(c) : Add(c, Scheduler(1, 0, 0), a)
    \/ \E c \in UseCallbacks : Remove(c)
    \/ \E arg \in {-1, 2} : runs < MaxRuns /\ RunCall(arg)
    \/ Notify
    \/ InitialNonTargeters
    \/ EnterLoop
    \/ Iterate(FALSE)
    \/ Checkpoint
    \/ End

UseSpec == UseInit /\ [][UseNext]_vars

\* C36: after any sequence of add, remove and run, the list of callbacks
\* holds no callback twice and its members are the keys of the table of
\* parameters (scheduler and arguments): every callback that is listed, or
\* that _notify is about to call, has its entry.
ListMatchesParams ==
    /\ \A i, j \in 1..Len(callback) : callback[i] = callback[j] => i = j
    /\ Range(callback) = DOMAIN cbk_params
    /\ Range(pending) \subseteq DOMAIN cbk_params
    /\ \A c \in DOMAIN cbk_params :
          DOMAIN cbk_params[c] = {"scheduler", "args"}

\* after a run, an observer was removed from a registry that had three
\* and the next run notifies one that is left
NotifyingAfterRemove ==
    /\ runs = 2 /\ pc = "notify" /\ pending # <<>>
    /\ op.name = "run"
    /\ Len(callback) = 2
    /\ \E i \in 1..Len(log) :
          /\ log[i].ev = "notify" /\ log[i].cb \notin Range(callback)
          /\ \E j \in (i + 1)..Len(log) : log[j].ev = "run"

\* ------------------------------------------------------------------------
\* C37: after any number of calls of run() on one instance the registry
\* holds exactly one entry for the targeter of steps; each call replaces it
\* with a scheduler of interval steps and the value current_step + steps,
\* current_step being that at the moment of the call, and the entry stays
\* behind every entry that is no targeter.
RunReplacesStepTarget ==
    [][/\ runs' = runs + 1 =>
             cbk_params'["target_steps"] =
                 [scheduler |-> Scheduler(steps', 0, 0),
                  args |-> <<current_step + steps'>>]
       /\ runs' >= 1 =>
             /\ Count(callback', "target_steps") = 1
             /\ \A i \in 1..Len(callback') :
                   ~IsTargeter(callback'[i]) => i < Pos(callback', "target_steps")]_vars

\* the second run on an instance that has advanced was prepared: the value
\* of the targeter for steps is above the run length, a writer is listed
SecondRunRetargeted ==
    /\ runs = 2 /\ pc = "targeters"
    /\ steps >= 1
    /\ initial_step >= 1
    /\ cbk_params["target_steps"].args = <<initial_step + steps>>
    /\ callback = <<"write_a", "target_steps">>

====
